---- MODULE Spec2Model ----
(***************************************************************************)
(* Model of base_definitions.h: the iTIMEOUT predicate, the MIN/MAX/CLAMP  *)
(* helpers, the bit macros and the two enumerations i_status and var_type. *)
(*                                                                         *)
(* unsigned int is 32 bits wide.  A 32-bit unsigned value is held as the   *)
(* pair <<hi, lo>> of its 16-bit halves, so that arithmetic modulo 2^32 is *)
(* computed exactly.  A word handed to the bit macros is held as the set   *)
(* of the indices of its 1 bits, so that 64-bit words are exact too.       *)
(***************************************************************************)
EXTENDS Integers, Naturals, Sequences, FiniteSets, TLC

VARIABLES
    start, current, timeout, ticks, expired, pollTicks,   \* iTIMEOUT caller
    val, lo, hi, minOut, maxOut, clampOut,                \* MIN / MAX / CLAMP caller
    width, var, bit, orig, hist, test,                    \* bit macro caller
    nStatus, statusTab, nVarType, varTypeTab              \* enumerator declarations

vars == <<start, current, timeout, ticks, expired, pollTicks,
          val, lo, hi, minOut, maxOut, clampOut,
          width, var, bit, orig, hist, test,
          nStatus, statusTab, nVarType, varTypeTab>>

timerVars == <<start, current, timeout, ticks, expired, pollTicks>>
arithVars == <<val, lo, hi, minOut, maxOut, clampOut>>
bitVars   == <<width, var, bit, orig, hist, test>>
enumVars  == <<nStatus, statusTab, nVarType, varTypeTab>>

(***************************************************************************)
(* Bounds                                                                  *)
(***************************************************************************)
MaxNear  == 3    \* counter samples lie within MaxNear of 0, 2^31 and 2^32
MaxTicks == 4    \* ticks a poller lets the counter advance
MaxVal   == 3    \* MIN/MAX/CLAMP operands range over -MaxVal..MaxVal
MaxOps   == 2    \* bit macros applied in a row to one word

NONE == -1       \* no result yet

(***************************************************************************)
(* 32-bit unsigned arithmetic                                              *)
(***************************************************************************)
Half == 65536

\* the unsigned int with value n (n >= 0), or 2^32 + n (n < 0), |n| < 2^16
U32(n) == IF n >= 0 THEN <<n \div Half, n % Half>> ELSE <<Half - 1, Half + n>>

\* 2^31 + n, |n| < 2^16
Mid32(n) == IF n >= 0 THEN <<Half \div 2, n>> ELSE <<(Half \div 2) - 1, Half + n>>

UINT_MAX == <<Half - 1, Half - 1>>

\* a < b on unsigned int
Lt32(a, b) == a[1] < b[1] \/ (a[1] = b[1] /\ a[2] < b[2])

\* a - b on unsigned int, modulo 2^32
Sub32(a, b) ==
    LET l      == a[2] - b[2]
        borrow == IF l < 0 THEN 1 ELSE 0
        h      == a[1] - b[1] - borrow
    IN  <<(h + Half) % Half, (l + Half) % Half>>

\* a + 1 on unsigned int, modulo 2^32
Inc32(a) ==
    IF a[2] + 1 < Half THEN <<a[1], a[2] + 1>> ELSE <<(a[1] + 1) % Half, 0>>

iTIMEOUT(s, c, t) ==
    IF Lt32(IF Lt32(s, c) THEN Sub32(s, Sub32(UINT_MAX, c)) ELSE Sub32(s, c), t)
    THEN 0 ELSE 1

(***************************************************************************)
(* MIN, MAX, CLAMP on operands of one integer type                         *)
(***************************************************************************)
MIN_flipped(a, b) == IF a > b THEN a ELSE b

MIN(a, b) == IF a < b THEN a ELSE b

MAX(a, b) == IF a > b THEN a ELSE b

CLAMP_swapped(v, min, max) == MIN(min, MAX(v, max))

CLAMP(v, min, max) == MAX(min, MIN(v, max))

(***************************************************************************)
(* Bit macros.  A word of w bits is the set of the indices of its 1 bits.  *)
(* The mask 1U << bit has type unsigned int; a shift by UINT_BITS or more  *)
(* is undefined, and is one of the results builds produce: 0 (the shifter  *)
(* saturates) or 1U << (bit mod UINT_BITS) (the shifter wraps the count).  *)
(***************************************************************************)
UINT_BITS == 32

Widths == {8, 16, 32, 64}

UIntBits == 0 .. (UINT_BITS - 1)

\* the possible values of 1U << b
Shl1U(b) == IF b < UINT_BITS THEN {{b}} ELSE {{}, {b % UINT_BITS}}

\* ~m on unsigned int
Not32(m) == UIntBits \ m

\* conversion of an unsigned int / wider operand result to a w-bit word
Conv(m, w) == m \cap (0 .. (w - 1))

SET_BIT(v, b, w) == {Conv(v \cup m, w) : m \in Shl1U(b)}

CLEAR_BIT(v, b, w) == {Conv(v \cap Not32(m), w) : m \in Shl1U(b)}

TOGGLE_BIT(v, b, w) == {Conv((v \ m) \cup (m \ v), w) : m \in Shl1U(b)}

IS_BIT_SET(v, b) == {(v \cap m) # {} : m \in Shl1U(b)}

IS_BIT_CLEAR(v, b) == {(v \cap m) = {} : m \in Shl1U(b)}

(***************************************************************************)
(* i_status: the enumerators in declaration order, band by band            *)
(***************************************************************************)
StatusGeneral == <<
    [name |-> "STATUS_OK", value |-> \h01],
    [name |-> "STATUS_ERROR", value |-> \h02],
    [name |-> "STATUS_TIMEOUT", value |-> \h03],
    [name |-> "STATUS_BUSY", value |-> \h04],
    [name |-> "STATUS_IDLE", value |-> \h05],
    [name |-> "STATUS_NOT_FOUND", value |-> \h06],
    [name |-> "STATUS_UNSUPPORTED", value |-> \h07],
    [name |-> "STATUS_INITIALIZED", value |-> \h08],
    [name |-> "STATUS_NOT_INITIALIZED", value |-> \h09],
    [name |-> "STATUS_IN_PROGRESS", value |-> \h0A],
    [name |-> "STATUS_COMPLETED", value |-> \h0B]>>

StatusMemory == <<
    [name |-> "STATUS_MEM_ALIGNED", value |-> \h10],
    [name |-> "STATUS_MEM_UNALIGNED", value |-> \h11],
    [name |-> "STATUS_MEM_FULL", value |-> \h12],
    [name |-> "STATUS_MEM_EMPTY", value |-> \h13],
    [name |-> "STATUS_OVERFLOW", value |-> \h14],
    [name |-> "STATUS_UNDERFLOW", value |-> \h15]>>

StatusAccess == <<
    [name |-> "STATUS_ACCESS_GRANTED", value |-> \h20],
    [name |-> "STATUS_ACCESS_DENIED", value |-> \h21],
    [name |-> "STATUS_LOCKED", value |-> \h22],
    [name |-> "STATUS_UNLOCKED", value |-> \h23]>>

StatusActivity == <<
    [name |-> "STATUS_ACTIVE", value |-> \h30],
    [name |-> "STATUS_INACTIVE", value |-> \h31],
    [name |-> "STATUS_STOPPED", value |-> \h32],
    [name |-> "STATUS_RUNNING", value |-> \h33],
    [name |-> "STATUS_SLEEPING", value |-> \h34],
    [name |-> "STATUS_STANDBY", value |-> \h35],
    [name |-> "STATUS_NOT_READY", value |-> \h36],
    [name |-> "STATUS_BUSY", value |-> \h37]>>

StatusDebug == <<
    [name |-> "STATUS_WARNING", value |-> \h40],
    [name |-> "STATUS_SELF_TEST_PASS", value |-> \hC0],
    [name |-> "STATUS_SELF_TEST_FAIL", value |-> \hC1],
    [name |-> "STATUS_DEBUG_1", value |-> \hE1],
    [name |-> "STATUS_DEBUG_2", value |-> \hE2],
    [name |-> "STATUS_DEBUG_3", value |-> \hE3]>>

StatusReserved_clash == <<
    [name |-> "STATUS_NOT_IMPLEMENTED", value |-> \hFD],
    [name |-> "STATUS_UNKNOWN", value |-> \hFD]>>

StatusReserved == <<
    [name |-> "STATUS_NOT_IMPLEMENTED", value |-> \hFD],
    [name |-> "STATUS_UNKNOWN", value |-> \hFE]>>

i_status == StatusGeneral \o StatusMemory \o StatusAccess \o StatusActivity
            \o StatusDebug \o StatusReserved

(***************************************************************************)
(* var_type: the enumerators in declaration order; bits, signed and array  *)
(* are the facets the enumerator's name and comment document               *)
(***************************************************************************)
VarTypeScalars == <<
    [name |-> "VAR_TYPE_U8", value |-> \h01, bits |-> 8, signed |-> FALSE, array |-> FALSE],
    [name |-> "VAR_TYPE_I8", value |-> \h11, bits |-> 8, signed |-> TRUE, array |-> FALSE],
    [name |-> "VAR_TYPE_U16", value |-> \h02, bits |-> 16, signed |-> FALSE, array |-> FALSE],
    [name |-> "VAR_TYPE_I16", value |-> \h12, bits |-> 16, signed |-> TRUE, array |-> FALSE],
    [name |-> "VAR_TYPE_U32", value |-> \h04, bits |-> 32, signed |-> FALSE, array |-> FALSE],
    [name |-> "VAR_TYPE_I32", value |-> \h14, bits |-> 32, signed |-> TRUE, array |-> FALSE],
    [name |-> "VAR_TYPE_U64", value |-> \h08, bits |-> 64, signed |-> FALSE, array |-> FALSE],
    [name |-> "VAR_TYPE_I64", value |-> \h18, bits |-> 64, signed |-> TRUE, array |-> FALSE]>>

VarTypeArrays_unsignedI32 == <<
    [name |-> "VAR_TYPE_U8_ARR", value |-> \h21, bits |-> 8, signed |-> FALSE, array |-> TRUE],
    [name |-> "VAR_TYPE_I8_ARR", value |-> \h31, bits |-> 8, signed |-> TRUE, array |-> TRUE],
    [name |-> "VAR_TYPE_U16_ARR", value |-> \h22, bits |-> 16, signed |-> FALSE, array |-> TRUE],
    [name |-> "VAR_TYPE_I16_ARR", value |-> \h32, bits |-> 16, signed |-> TRUE, array |-> TRUE],
    [name |-> "VAR_TYPE_U32_ARR", value |-> \h24, bits |-> 32, signed |-> FALSE, array |-> TRUE],
    [name |-> "VAR_TYPE_I32_ARR", value |-> \h24, bits |-> 32, signed |-> TRUE, array |-> TRUE],
    [name |-> "VAR_TYPE_U64_ARR", value |-> \h28, bits |-> 64, signed |-> FALSE, array |-> TRUE],
    [name |-> "VAR_TYPE_I64_ARR", value |-> \h38, bits |-> 64, signed |-> TRUE, array |-> TRUE]>>

VarTypeArrays == <<
    [name |-> "VAR_TYPE_U8_ARR", value |-> \h21, bits |-> 8, signed |-> FALSE, array |-> TRUE],
    [name |-> "VAR_TYPE_I8_ARR", value |-> \h31, bits |-> 8, signed |-> TRUE, array |-> TRUE],
    [name |-> "VAR_TYPE_U16_ARR", value |-> \h22, bits |-> 16, signed |-> FALSE, array |-> TRUE],
    [name |-> "VAR_TYPE_I16_ARR", value |-> \h32, bits |-> 16, signed |-> TRUE, array |-> TRUE],
    [name |-> "VAR_TYPE_U32_ARR", value |-> \h24, bits |-> 32, signed |-> FALSE, array |-> TRUE],
    [name |-> "VAR_TYPE_I32_ARR", value |-> \h34, bits |-> 32, signed |-> TRUE, array |-> TRUE],
    [name |-> "VAR_TYPE_U64_ARR", value |-> \h28, bits |-> 64, signed |-> FALSE, array |-> TRUE],
    [name |-> "VAR_TYPE_I64_ARR", value |-> \h38, bits |-> 64, signed |-> TRUE, array |-> TRUE]>>

var_type == VarTypeScalars \o VarTypeArrays

(***************************************************************************)
(* Inputs                                                                  *)
(***************************************************************************)
Near == (-MaxNear) .. MaxNear

CounterSamples ==
    {U32(n) : n \in Near} \cup {Mid32(n) : n \in Near}
    \cup {U32(5), U32(-10), U32(100), U32(130), U32(150)}

TimeoutSamples == {U32(n) : n \in 0 .. MaxNear} \cup {U32(5), U32(20), U32(40)}

Operands == (-MaxVal) .. MaxVal

WordSamples(w) ==
    {{}, 0 .. (w - 1), {0}, {w - 1}, {i \in 0 .. (w - 1) : i % 2 = 0}}

NoTest == <<"none", FALSE>>

TimerIdle ==
    /\ start = U32(0) /\ current = U32(0) /\ timeout = U32(0)
    /\ ticks = 0 /\ expired = NONE /\ pollTicks = NONE

ArithIdle ==
    /\ val = 0 /\ lo = 0 /\ hi = 0
    /\ minOut = <<>> /\ maxOut = <<>> /\ clampOut = <<>>

BitsIdle ==
    /\ width = 8 /\ var = {} /\ bit = 0 /\ orig = {}
    /\ hist = <<>> /\ test = NoTest

EnumIdle ==
    /\ nStatus = 0 /\ statusTab = {} /\ nVarType = 0 /\ varTypeTab = {}

(***************************************************************************)
(* iTIMEOUT evaluated once on arbitrary counter readings                   *)
(***************************************************************************)
InitTimeout ==
    /\ start \in CounterSamples
    /\ current \in CounterSamples
    /\ timeout \in TimeoutSamples
    /\ ticks = 0 /\ expired = NONE /\ pollTicks = NONE
    /\ ArithIdle /\ BitsIdle /\ EnumIdle

Evaluate ==
    /\ expired = NONE
    /\ expired' = iTIMEOUT(start, current, timeout)
    /\ UNCHANGED <<start, current, timeout, ticks, pollTicks>>
    /\ UNCHANGED <<arithVars, bitVars, enumVars>>

NextTimeout == Evaluate

SpecTimeout == InitTimeout /\ [][NextTimeout]_vars

(***************************************************************************)
(* A caller polling iTIMEOUT while the counter advances tick by tick       *)
(***************************************************************************)
InitPoll ==
    /\ start \in CounterSamples
    /\ current = start
    /\ timeout \in TimeoutSamples
    /\ ticks = 0 /\ expired = NONE /\ pollTicks = NONE
    /\ ArithIdle /\ BitsIdle /\ EnumIdle

Tick ==
    /\ ticks < MaxTicks
    /\ current' = Inc32(current)
    /\ ticks' = ticks + 1
    /\ UNCHANGED <<start, timeout, expired, pollTicks>>
    /\ UNCHANGED <<arithVars, bitVars, enumVars>>

Poll ==
    /\ pollTicks # ticks
    /\ expired' = iTIMEOUT(start, current, timeout)
    /\ pollTicks' = ticks
    /\ UNCHANGED <<start, current, timeout, ticks>>
    /\ UNCHANGED <<arithVars, bitVars, enumVars>>

NextPoll == Tick \/ Poll

SpecPoll == InitPoll /\ [][NextPoll]_vars

(***************************************************************************)
(* MIN, MAX and CLAMP applied to a value and a range                       *)
(***************************************************************************)
InitArith ==
    /\ val \in Operands /\ lo \in Operands /\ hi \in Operands
    /\ minOut = <<>> /\ maxOut = <<>> /\ clampOut = <<>>
    /\ TimerIdle /\ BitsIdle /\ EnumIdle

DoMin ==
    /\ minOut = <<>>
    /\ minOut' = <<MIN(val, hi)>>
    /\ UNCHANGED <<val, lo, hi, maxOut, clampOut>>
    /\ UNCHANGED <<timerVars, bitVars, enumVars>>

DoMax ==
    /\ maxOut = <<>>
    /\ maxOut' = <<MAX(val, hi)>>
    /\ UNCHANGED <<val, lo, hi, minOut, clampOut>>
    /\ UNCHANGED <<timerVars, bitVars, enumVars>>

DoClamp ==
    /\ clampOut = <<>>
    /\ clampOut' = <<CLAMP(val, lo, hi)>>
    /\ UNCHANGED <<val, lo, hi, minOut, maxOut>>
    /\ UNCHANGED <<timerVars, bitVars, enumVars>>

NextArith == DoMin \/ DoMax \/ DoClamp

SpecArith == InitArith /\ [][NextArith]_vars

(***************************************************************************)
(* The bit macros applied to one word at one index                         *)
(***************************************************************************)
InitBits ==
    /\ width \in Widths
    /\ var \in WordSamples(width)
    /\ bit \in 0 .. (width - 1)
    /\ orig = var
    /\ hist = <<>> /\ test = NoTest
    /\ TimerIdle /\ ArithIdle /\ EnumIdle

Modify(op, results) ==
    /\ Len(hist) < MaxOps
    /\ var' \in results
    /\ hist' = Append(hist, op)
    /\ test' = NoTest
    /\ UNCHANGED <<width, bit, orig>>
    /\ UNCHANGED <<timerVars, arithVars, enumVars>>

Query(kind, results) ==
    /\ test = NoTest
    /\ \E r \in results : test' = <<kind, r>>
    /\ UNCHANGED <<width, var, bit, orig, hist>>
    /\ UNCHANGED <<timerVars, arithVars, enumVars>>

SetBit == Modify("set", SET_BIT(var, bit, width))

ClearBit == Modify("clear", CLEAR_BIT(var, bit, width))

ToggleBit == Modify("toggle", TOGGLE_BIT(var, bit, width))

IsBitSet == Query("is_set", IS_BIT_SET(var, bit))

IsBitClear == Query("is_clear", IS_BIT_CLEAR(var, bit))

NextBits == SetBit \/ ClearBit \/ ToggleBit \/ IsBitSet \/ IsBitClear

SpecBits == InitBits /\ [][NextBits]_vars

(***************************************************************************)
(* The enumerators of i_status and var_type entering the symbol table in   *)
(* declaration order                                                       *)
(***************************************************************************)
InitEnum ==
    /\ nStatus = 0 /\ statusTab = {} /\ nVarType = 0 /\ varTypeTab = {}
    /\ TimerIdle /\ ArithIdle /\ BitsIdle

DeclareStatus ==
    /\ nStatus < Len(i_status)
    /\ nStatus' = nStatus + 1
    /\ statusTab' = statusTab \cup {i_status[nStatus + 1]}
    /\ UNCHANGED <<nVarType, varTypeTab>>
    /\ UNCHANGED <<timerVars, arithVars, bitVars>>

DeclareVarType ==
    /\ nVarType < Len(var_type)
    /\ nVarType' = nVarType + 1
    /\ varTypeTab' = varTypeTab \cup {var_type[nVarType + 1]}
    /\ UNCHANGED <<nStatus, statusTab>>
    /\ UNCHANGED <<timerVars, arithVars, bitVars>>

NextEnum == DeclareStatus \/ DeclareVarType

SpecEnum == InitEnum /\ [][NextEnum]_vars

Init == InitTimeout

Next == NextTimeout

Spec == SpecTimeout

(***************************************************************************)
(* Properties                                                              *)
(***************************************************************************)
\* elapsed ticks on a counter that is a ring of size 2^32
Elapsed(s, c) == Sub32(c, s)

\* 1 iff the elapsed ticks have reached the timeout
Expected(s, c, t) == IF Lt32(Elapsed(s, c), t) THEN 0 ELSE 1

\* x & y on naturals
RECURSIVE BitAnd(_, _)
BitAnd(x, y) ==
    IF x = 0 \/ y = 0 THEN 0
    ELSE (x % 2) * (y % 2) + 2 * BitAnd(x \div 2, y \div 2)

\* C1: with start <= current (no wraparound) iTIMEOUT returns 1 iff
\* current - start >= timeout and 0 iff current - start < timeout.
C1_NoWrapExpiry ==
    (expired # NONE /\ ~Lt32(current, start))
        => expired = Expected(start, current, timeout)

\* C2: with start > current (the counter has wrapped) iTIMEOUT returns 1 iff
\* (current - start) mod 2^32 >= timeout.
C2_WrapExpiry ==
    (expired # NONE /\ Lt32(current, start))
        => (expired = 1) = ~Lt32(Elapsed(start, current), timeout)

\* C3: no i_status name is declared with two different values.
C3_StatusNameHasOneValue ==
    \A p, q \in statusTab : p.name = q.name => p.value = q.value

\* C4: two distinct i_status names have distinct values, and every value
\* fits in one byte.
C4_StatusValuesDistinct ==
    /\ \A p, q \in statusTab : p.name # q.name => p.value # q.value
    /\ \A p \in statusTab : p.value \in 0 .. 255

C4_Witness ==
    /\ nStatus = Len(i_status)
    /\ \E p, q \in statusTab : p.name = "STATUS_OK" /\ q.name = "STATUS_UNKNOWN"

\* C5: the facets decoded from a var_type value by bit masking (width in
\* bytes = value & 0x0F, signed = value & 0x10, array = value & 0x20) match
\* the facets the name documents, and no two names share a value.
C5_VarTypeFacets ==
    /\ \A e \in varTypeTab :
          /\ BitAnd(e.value, 15) \in {1, 2, 4, 8}
          /\ BitAnd(e.value, 15) * 8 = e.bits
          /\ (BitAnd(e.value, 16) # 0) = e.signed
          /\ (BitAnd(e.value, 32) # 0) = e.array
    /\ \A e, f \in varTypeTab : e.name # f.name => e.value # f.value

C5_Witness ==
    /\ nVarType = Len(var_type)
    /\ \E e \in varTypeTab :
          /\ e.name = "VAR_TYPE_I32_ARR"
          /\ BitAnd(e.value, 15) = 4
          /\ BitAnd(e.value, 16) # 0
          /\ BitAnd(e.value, 32) # 0

\* C6: with lo <= hi, CLAMP(v, lo, hi) is lo when v < lo, hi when v > hi and
\* v otherwise, and lies in [lo, hi].
C6_Clamp ==
    (clampOut # <<>> /\ lo <= hi) =>
        /\ clampOut[1] = (IF val < lo THEN lo ELSE IF val > hi THEN hi ELSE val)
        /\ lo <= clampOut[1] /\ clampOut[1] <= hi

C6_Witness == clampOut # <<>> /\ lo < hi /\ val > hi /\ clampOut[1] = hi

\* C7: IS_BIT_SET is true after SET_BIT on the same index, IS_BIT_CLEAR is
\* true after CLEAR_BIT on the same index, and TOGGLE_BIT applied twice
\* gives back the original word.
C7_BitRoundTrips ==
    /\ (hist # <<>> /\ hist[Len(hist)] = "set" /\ test[1] = "is_set") => test[2]
    /\ (hist # <<>> /\ hist[Len(hist)] = "clear" /\ test[1] = "is_clear") => test[2]
    /\ hist = <<"toggle", "toggle">> => var = orig

\* C8: MIN returns the lesser and MAX the greater operand, the result is one
\* of the operands, and it equals both when they are equal.
C8_MinMax ==
    /\ minOut # <<>> =>
          /\ minOut[1] <= val /\ minOut[1] <= hi
          /\ minOut[1] \in {val, hi}
          /\ val = hi => (minOut[1] = val /\ minOut[1] = hi)
    /\ maxOut # <<>> =>
          /\ maxOut[1] >= val /\ maxOut[1] >= hi
          /\ maxOut[1] \in {val, hi}
          /\ val = hi => (maxOut[1] = val /\ maxOut[1] = hi)

C8_Witness ==
    /\ minOut # <<>> /\ maxOut # <<>>
    /\ val < hi /\ minOut[1] = val /\ maxOut[1] = hi

\* C9: SET_BIT, CLEAR_BIT and TOGGLE_BIT change only the bit at the index:
\* every other bit of the word keeps its value, for every word width.
C9_OtherBitsKept == [][(var' \ {bit}) = (var \ {bit})]_vars

\* C10: polled while the counter advances from start, iTIMEOUT is 0 at
\* current = start when timeout > 0, and once it has returned 1 it returns 1
\* at every later poll within one lap of the counter.
C10_ExpiryLatches ==
    /\ []((pollTicks = 0 /\ timeout # U32(0)) => expired = 0)
    /\ [][expired = 1 => expired' = 1]_vars

====
